---------------------------- MODULE Spec2Model ----------------------------
(***************************************************************************)
(* A model of the bf19 interpreter (src/src/lib.rs): the Tape, the         *)
(* FnTable, the pairing map built by gen_index_table, and the dispatch     *)
(* loop of run() with its nested invocations (function bodies and quine    *)
(* re-runs), started by exec().                                            *)
(*                                                                         *)
(* Characters are Unicode code points (naturals), bytes are 0..255, and    *)
(* positions in a buffer are 0-based as in the source.                     *)
(***************************************************************************)
EXTENDS Integers, Sequences, FiniteSets, TLC

\* ------------------------------------------------------------------ bounds
\* Longest program drawn from CoreAlphabet.
MaxLen == 4
\* Longest program drawn from PairAlphabet.
MaxPairLen == 4
\* Largest number of leading '+' of the programs +^n[-.].
MaxPlus == 255
\* Largest body length k and invocation count m of the programs x +^k x x^m.
MaxBody == 16
MaxCalls == 16
\* Cap on each history of the Tape during a run.
MaxTape == 8
\* Cap on the Output Buffer.
MaxOut == 256
\* Cap on the depth of nested run() invocations.
MaxDepth == 3
\* Cap on the stored cells (both histories together) of the Tape API runs.
MaxCells == 5
\* Longest history of the tapes the head-move runs start from.
MaxHist == 2
\* Farthest the head-move runs take the head from where it started.
MaxMoves == 3
\* Longest body and largest start offset of the FnTable API runs.
MaxFnBody == 2
MaxStart == 1

\* ------------------------------------------------------------- characters
\* The code point of each character the model names.
Ord ==
  "<" :> 60 @@ ">" :> 62 @@ "{" :> 123 @@ "}" :> 125 @@ "[" :> 91
  @@ "]" :> 93 @@ "(" :> 40 @@ ")" :> 41 @@ "+" :> 43 @@ "-" :> 45
  @@ "*" :> 42 @@ "/" :> 47 @@ "!" :> 33 @@ "." :> 46 @@ "," :> 44
  @@ "\\" :> 92 @@ "#" :> 35 @@ "?" :> 63 @@ "$" :> 36 @@ "&" :> 38
  @@ "@" :> 64 @@ "\"" :> 34 @@ "BACKTICK" :> 96 @@ "~" :> 126 @@ "|" :> 124
  @@ ";" :> 59 @@ "^" :> 94 @@ ":" :> 58 @@ "'" :> 39 @@ "_" :> 95
  @@ "%" :> 37 @@ "=" :> 61 @@ "0" :> 48 @@ "1" :> 49 @@ "2" :> 50
  @@ "3" :> 51 @@ "4" :> 52 @@ "5" :> 53 @@ "6" :> 54 @@ "7" :> 55
  @@ "8" :> 56 @@ "9" :> 57 @@ " " :> 32 @@ "\n" :> 10 @@ "\t" :> 9
  @@ "a" :> 97 @@ "b" :> 98 @@ "N" :> 78 @@ "i" :> 105 @@ "c" :> 99
  @@ "e" :> 101

\* A program text written as a tuple of one-character strings.
Str(t) == [i \in 1..Len(t) |-> Ord[t[i]]]

\* code[i] with the source's 0-based index.
At(code, i) == code[i + 1]

Byte == 0..255

\* The last element of a non-empty sequence (Vec::last), and the rest (Vec::pop).
Last(s) == s[Len(s)]
Front(s) == SubSeq(s, 1, Len(s) - 1)

\* ------------------------------------------------------------- cell_round
\* Mutant: the remainder is always dropped.
cell_round_Floor(n) == 5 * (n \div 5)

cell_round(n) ==
  LET o == n % 5
      b == 5 * (n \div 5)
  IN  IF o <= 2 THEN b ELSE (b + 5) % 256

\* ------------------------------------------------------------------- Tape
\* data_l and data_r are stacks: the last element is the one nearest the head.
Tape_new == [data_l |-> <<>>, data_r |-> <<>>, cell |-> 0]

Tape_get(t) == t.cell

Tape_set(t, val) == [t EXCEPT !.cell = val]

Tape_get_next(t) == IF Len(t.data_r) > 0 THEN Last(t.data_r) ELSE 0

Tape_set_next(t, val) ==
  IF Len(t.data_r) > 0
    THEN [t EXCEPT !.data_r = Append(Front(t.data_r), val)]
    ELSE [t EXCEPT !.data_r = Append(t.data_r, val)]

\* Mutant: next takes the cell from the far end of the right history.
Tape_next_PopFirst(t) ==
  [data_l |-> Append(t.data_l, t.cell),
   data_r |-> IF Len(t.data_r) > 0 THEN Tail(t.data_r) ELSE t.data_r,
   cell   |-> IF Len(t.data_r) > 0 THEN Head(t.data_r) ELSE 0]

Tape_next(t) ==
  [data_l |-> Append(t.data_l, t.cell),
   data_r |-> IF Len(t.data_r) > 0 THEN Front(t.data_r) ELSE t.data_r,
   cell   |-> IF Len(t.data_r) > 0 THEN Last(t.data_r) ELSE 0]

\* Mutant: prev forgets to push the cell it leaves.
Tape_prev_NoPush(t) ==
  [data_r |-> t.data_r,
   data_l |-> IF Len(t.data_l) > 0 THEN Front(t.data_l) ELSE t.data_l,
   cell   |-> IF Len(t.data_l) > 0 THEN Last(t.data_l) ELSE 0]

Tape_prev(t) ==
  [data_r |-> Append(t.data_r, t.cell),
   data_l |-> IF Len(t.data_l) > 0 THEN Front(t.data_l) ELSE t.data_l,
   cell   |-> IF Len(t.data_l) > 0 THEN Last(t.data_l) ELSE 0]

Tape_insert_left(t, val) == [t EXCEPT !.data_l = Append(t.data_l, val)]

Tape_insert_right(t, val) == [t EXCEPT !.data_r = Append(t.data_r, val)]

\* Mutant: delete_left removes the oldest cell of the history, not the nearest.
Tape_delete_left_Oldest(t) ==
  IF Len(t.data_l) > 0
    THEN [tape |-> [t EXCEPT !.data_l = Tail(t.data_l)], ret |-> Head(t.data_l)]
    ELSE [tape |-> t, ret |-> 0]

\* delete_left / delete_right return the removed value beside the new tape.
Tape_delete_left(t) ==
  IF Len(t.data_l) > 0
    THEN [tape |-> [t EXCEPT !.data_l = Front(t.data_l)], ret |-> Last(t.data_l)]
    ELSE [tape |-> t, ret |-> 0]

Tape_delete_right(t) ==
  IF Len(t.data_r) > 0
    THEN [tape |-> [t EXCEPT !.data_r = Front(t.data_r)], ret |-> Last(t.data_r)]
    ELSE [tape |-> t, ret |-> 0]

\* Mutant: the whole history repeated n times instead of each element.
Repeat_Whole(s, n) == [i \in 1..(n * Len(s)) |-> s[((i - 1) % Len(s)) + 1]]

\* map(|x| vec![x; n]).flatten().collect(): every element n times, in order.
Repeat(s, n) == [i \in 1..(n * Len(s)) |-> s[((i - 1) \div n) + 1]]

Tape_expand_2(t) ==
  [data_l |-> Repeat(t.data_l, 2),
   data_r |-> Append(Repeat(t.data_r, 2), t.cell),
   cell   |-> t.cell]

Tape_expand_3(t) ==
  [data_l |-> Repeat(t.data_l, 3),
   data_r |-> Append(Append(Repeat(t.data_r, 3), t.cell), t.cell),
   cell   |-> t.cell]

\* One cell after randomize: left alone, or (x as i16 + d) as u8 for d in -5..=5.
Perturb(x) == {x} \cup {(x + d + 256) % 256 : d \in (-5)..5}

\* Every sequence randomize can map a history to, cell by cell.
RECURSIVE PerturbSeq(_)
PerturbSeq(s) ==
  IF s = <<>> THEN {<<>>}
  ELSE {Append(p, x) : p \in PerturbSeq(Front(s)), x \in Perturb(Last(s))}

\* The tapes randomize can leave: data_r is recomputed from the new data_l.
Tape_randomize(t) ==
  UNION {{[data_l |-> l, data_r |-> r, cell |-> c] :
            r \in PerturbSeq(l), c \in Perturb(t.cell)} : l \in PerturbSeq(t.data_l)}

\* ---------------------------------------------------------------- FnTable
\* funcs maps an identifier to (body, start); creating is the being-defined set.
FnTable_new == [funcs |-> <<>>, creating |-> {}]

FnTable_exists(ft, c) == c \in DOMAIN ft.funcs

FnTable_is_creating(ft, c) == c \in ft.creating

FnTable_any_creating(ft) == ft.creating # {}

\* Mutant: get forgets that a being-defined identifier is not callable.
FnTable_get_is_some_NoCreatingCheck(ft, c) == c \in DOMAIN ft.funcs

\* get(c) is Some exactly when c has an entry and is not being defined.
FnTable_get_is_some(ft, c) == c \notin ft.creating /\ c \in DOMAIN ft.funcs

\* put unwraps the entry of every being-defined identifier.
FnTable_put_fails(ft) == \E f \in ft.creating : f \notin DOMAIN ft.funcs

\* Mutant: put reaches one being-defined identifier only.
FnTable_put_OnlyOne(ft, c) ==
  LET only == CHOOSE f \in ft.creating : TRUE
  IN  [ft EXCEPT !.funcs = [f \in DOMAIN ft.funcs |->
                              IF f = only
                                THEN [ft.funcs[f] EXCEPT !.body = Append(@, c)]
                                ELSE ft.funcs[f]]]

FnTable_put(ft, c) ==
  [ft EXCEPT !.funcs = [f \in DOMAIN ft.funcs |->
                          IF f \in ft.creating
                            THEN [ft.funcs[f] EXCEPT !.body = Append(@, c)]
                            ELSE ft.funcs[f]]]

\* HashMap::insert: the entry of key k is v, the others are kept.
MapInsert(m, k, v) == [x \in DOMAIN m \cup {k} |-> IF x = k THEN v ELSE m[x]]

\* Mutant: begin marks the identifier without creating its entry.
FnTable_begin_NoEntry(ft, c, i) ==
  [funcs |-> ft.funcs, creating |-> ft.creating \cup {c}]

FnTable_begin(ft, c, i) ==
  [funcs |-> MapInsert(ft.funcs, c, [body |-> <<>>, start |-> i]),
   creating |-> ft.creating \cup {c}]

FnTable_end(ft, c) == [ft EXCEPT !.creating = @ \ {c}]

FnTable_copy_fn(ft, from, to) ==
  IF from \in DOMAIN ft.funcs
    THEN [ft EXCEPT !.funcs = MapInsert(ft.funcs, to, ft.funcs[from])]
    ELSE ft

\* ------------------------------------------------------------ pairing map
\* A BiMap is a set of pairs <<left, right>>, one-to-one in both directions.
\* BiMap::insert drops any pair that holds the new left or the new right.
BiMap_insert(m, l, r) == {p \in m : p[1] # l /\ p[2] # r} \cup {<<l, r>>}

HasLeft(m, l) == \E p \in m : p[1] = l
HasRight(m, r) == \E p \in m : p[2] = r
get_by_left(m, l) == (CHOOSE p \in m : p[1] = l)[2]
get_by_right(m, r) == (CHOOSE p \in m : p[2] = r)[1]

\* An Option<usize> is <<>> (None) or <<o>> (Some(o)).
ScanInit ==
  [map |-> {}, brackstack |-> <<>>, last_comment |-> <<>>, last_quote |-> <<>>,
   last_percent |-> <<>>, last_zero |-> <<>>, ok |-> TRUE]

\* A singleton family's marker at i: open it, or close it and insert the pair.
Toggle(s, field, i) ==
  IF s[field] = <<>>
    THEN [s EXCEPT ![field] = <<i>>]
    ELSE [s EXCEPT ![field] = <<>>, !.map = BiMap_insert(s.map, s[field][1], i)]

\* Mutant: a loop closer without an opener is passed over.
CloseBracket_Lenient(s, i) ==
  IF s.brackstack = <<>>
    THEN s
    ELSE [s EXCEPT !.brackstack = Front(s.brackstack),
                   !.map = BiMap_insert(s.map, Last(s.brackstack), i)]

\* A loop closer at i: pop its opener, or fail with "mismatched brackets".
CloseBracket(s, i) ==
  IF s.brackstack = <<>>
    THEN [s EXCEPT !.ok = FALSE]
    ELSE [s EXCEPT !.brackstack = Front(s.brackstack),
                   !.map = BiMap_insert(s.map, Last(s.brackstack), i)]

\* Mutant: the loop closer's arm does not look at the open quote.
ScanStep_CloserInQuote(s, i, c) ==
  LET nc == s.last_comment = <<>>
      nq == s.last_quote = <<>>
  IN  CASE c = Ord["^"]              -> Toggle(s, "last_comment", i)
        [] c = Ord["\""] /\ nc       -> Toggle(s, "last_quote", i)
        [] c = Ord["%"] /\ nc /\ nq  -> Toggle(s, "last_percent", i)
        [] c = Ord["0"] /\ nc /\ nq  -> Toggle(s, "last_zero", i)
        [] c = Ord["["] /\ nc /\ nq  -> [s EXCEPT !.brackstack = Append(@, i)]
        [] c = Ord["]"] /\ nc        -> CloseBracket(s, i)
        [] OTHER                     -> s

\* One iteration of the scan: the match on (c, no comment open, no quote open).
ScanStep(s, i, c) ==
  LET nc == s.last_comment = <<>>
      nq == s.last_quote = <<>>
  IN  CASE c = Ord["^"]              -> Toggle(s, "last_comment", i)
        [] c = Ord["\""] /\ nc       -> Toggle(s, "last_quote", i)
        [] c = Ord["%"] /\ nc /\ nq  -> Toggle(s, "last_percent", i)
        [] c = Ord["0"] /\ nc /\ nq  -> Toggle(s, "last_zero", i)
        [] c = Ord["["] /\ nc /\ nq  -> [s EXCEPT !.brackstack = Append(@, i)]
        [] c = Ord["]"] /\ nc /\ nq  -> CloseBracket(s, i)
        [] OTHER                     -> s

\* The iterations of the scan for positions lo..hi, in order, from state s;
\* the ? operator returns at the first failure, so nothing is scanned after it.
RECURSIVE ScanRange(_, _, _, _)
ScanRange(code, lo, hi, s) ==
  IF lo > hi \/ ~s.ok THEN s
  ELSE IF lo = hi THEN ScanStep(s, lo, At(code, lo))
  ELSE LET mid == (lo + hi) \div 2
       IN  ScanRange(code, mid + 1, hi, ScanRange(code, lo, mid, s))

\* Ok(map) or Err("mismatched brackets").
gen_index_table(code) ==
  LET s == ScanRange(code, 0, Len(code) - 1, ScanInit)
  IN  [ok |-> s.ok, map |-> IF s.ok THEN s.map ELSE {}]

offset_index_table(itable, start) ==
  {<<p[1] - start, p[2] - start>> : p \in {q \in itable : q[1] >= start /\ q[2] >= start}}

RESERVED_CHARS ==
  {Ord[s] : s \in {"<", ">", "{", "}", "[", "]", "(", ")", "+", "-", "*", "/",
                   "!", ".", ",", "\\", "#", "?", "$", "&", "@", "\"", "BACKTICK", "~",
                   "|", ";", "^", ":", "'", "_", "%", "=", "0", "1", "2", "3",
                   "4", "5", "6", "7", "8", "9", " ", "\n", "\t"}}

BFMODE_ALLOW ==
  {Ord[s] : s \in {"<", ">", "+", "-", "[", "]", ".", ",", "_", " ", "\n", "\t"}}

\* ------------------------------------------------------------------ UTF-8
\* str::as_bytes of one character.
Utf8Char(cp) ==
  IF cp < 128 THEN <<cp>>
  ELSE IF cp < 2048 THEN <<192 + (cp \div 64), 128 + (cp % 64)>>
  ELSE IF cp < 65536
    THEN <<224 + (cp \div 4096), 128 + ((cp \div 64) % 64), 128 + (cp % 64)>>
  ELSE <<240 + (cp \div 262144), 128 + ((cp \div 4096) % 64),
         128 + ((cp \div 64) % 64), 128 + (cp % 64)>>

\* source_str.as_bytes(): the UTF-8 encoding of a text.
RECURSIVE as_bytes(_)
as_bytes(text) ==
  IF text = <<>> THEN <<>> ELSE Utf8Char(Head(text)) \o as_bytes(Tail(text))

IsCont(b) == b >= 128 /\ b <= 191

\* The number of bytes of the well-formed sequence that starts at bytes[i]
\* (1-based), or 0 when there is none: what std::str::from_utf8 accepts.
Utf8Width(bytes, i) ==
  LET n  == Len(bytes)
      b0 == bytes[i]
      b1 == bytes[i + 1]
  IN  IF b0 < 128 THEN 1
      ELSE IF b0 >= 194 /\ b0 <= 223
        THEN IF i + 1 <= n /\ IsCont(b1) THEN 2 ELSE 0
      ELSE IF b0 >= 224 /\ b0 <= 239
        THEN IF i + 2 <= n /\ IsCont(b1) /\ IsCont(bytes[i + 2])
                /\ (b0 = 224 => b1 >= 160) /\ (b0 = 237 => b1 <= 159)
             THEN 3 ELSE 0
      ELSE IF b0 >= 240 /\ b0 <= 244
        THEN IF i + 3 <= n /\ IsCont(b1) /\ IsCont(bytes[i + 2]) /\ IsCont(bytes[i + 3])
                /\ (b0 = 240 => b1 >= 144) /\ (b0 = 244 => b1 <= 143)
             THEN 4 ELSE 0
      ELSE 0

\* The code point of the w-byte sequence at bytes[i].
Utf8Point(bytes, i, w) ==
  CASE w = 1 -> bytes[i]
    [] w = 2 -> (bytes[i] - 192) * 64 + (bytes[i + 1] - 128)
    [] w = 3 -> (bytes[i] - 224) * 4096 + (bytes[i + 1] - 128) * 64 + (bytes[i + 2] - 128)
    [] w = 4 -> (bytes[i] - 240) * 262144 + (bytes[i + 1] - 128) * 4096
                  + (bytes[i + 2] - 128) * 64 + (bytes[i + 3] - 128)

\* from_utf8(bytes) and .chars().collect(): [ok, chars].
RECURSIVE from_utf8(_, _, _)
from_utf8(bytes, i, acc) ==
  IF i > Len(bytes) THEN [ok |-> TRUE, chars |-> acc]
  ELSE LET w == Utf8Width(bytes, i)
       IN  IF w = 0 THEN [ok |-> FALSE, chars |-> <<>>]
           ELSE from_utf8(bytes, i + w, Append(acc, Utf8Point(bytes, i, w)))

\* c as u8: the low byte of the code point.
as_u8(c) == c % 256

\* ------------------------------------------------------------------ state
VARIABLES
  source,      \* the program text given to exec (source_str)
  map,         \* exec's result of gen_index_table: [ok, map]
  stack,       \* the run() invocations in progress, the innermost last; each
               \* [kind, code, itable, idx, bfmode, nicemode]
  tape,        \* the shared Tape
  printed,     \* the shared Output Buffer
  fntable,     \* the shared FnTable
  status,      \* "new", "running", "ok" (exec returned Ok), "err" (exec
               \* returned Err), "panic" (the thread panicked), "api", "move",
               \* "fnapi" (the methods of Tape or FnTable called directly)
  stdin_read,  \* whether a byte was requested from standard input
  api_ops,     \* Tape API runs: the last two operations, the latest last
  api_pre,     \* Tape API runs: the tapes before each of those operations
  api_ret,     \* Tape API runs: the value the last operation returned
  move_from,   \* head-move runs: the Tape before the first move
  move_head    \* head-move runs: calls of next() minus calls of prev() so far

vars == <<source, map, stack, tape, printed, fntable, status, stdin_read,
          api_ops, api_pre, api_ret, move_from, move_head>>

apiVars == <<api_ops, api_pre, api_ret, move_from, move_head>>

\* --------------------------------------------------------------- programs
\* All texts over alphabet A of length at most n.
Texts(A, n) == UNION {[1..k -> {Ord[a] : a \in A}] : k \in 0..n}

CoreAlphabet == {"+", "-", "[", "]", "#", "^", "a", "."}

PairAlphabet == {"[", "]", "^", "\"", "%", "0"}

\* n copies of character ch.
Copies(ch, n) == [i \in 1..n |-> Ord[ch]]

\* +^n [-.]
PlusLoop(n) == Copies("+", n) \o Str(<<"[", "-", ".", "]">>)

\* x +^k x x^m
DefThenCalls(x, k, m) == Str(<<x>>) \o Copies("+", k) \o Str(<<x>>) \o Copies(x, m)

\* Programs that reach the commands the alphabets above leave out.
Corpus ==
  { Str(<<"+", ">", "<", "(", ")", "{", "}">>),
    Str(<<"+", ">", "+", "+", "<", "*", "/", "!", "/">>),
    Str(<<"+", "BACKTICK", "~", ":", "!", "!">>),
    Str(<<",", ".", ";", "@", "+">>),
    Str(<<"+", "[", "\\", "+", "]", "|">>),
    Str(<<"?", "$", "&", "+">>),
    Str(<<"\"", "a", "b", "\"", "<", ".", ">", ".">>),
    Str(<<"+", ".", "'">>),
    Str(<<"-", ".", "'">>),
    Str(<<"_", "a", "2", "+", "_", "6", "+", "9", "+">>),
    Str(<<"%", "+", "%", "0", "1", "0", "-", "%", "%">>),
    Str(<<"=">>), Str(<<"1">>), Str(<<"7">>),
    Str(<<"+", ">", "2", "3", "5", " ", "\n", "\t", "9">>),
    Str(<<"8">>),
    Str(<<">", "4">>),
    Str(<<"a", "[", "a", "b", "=", "a", "b", "+", "#", "b">>),
    Str(<<"+", "#", "^", "^">>),
    Str(<<"a", "[", "]", "a", "a">>),
    Str(<<"a", "b", "[", "]", "b", "a", "a">>),
    Str(<<"+", "\"", "[", "]", "\"", "<", ".", ">", ".", ">", "'">>),
    Str(<<"b", "+", "b", "a", "b", "a", "+">>),
    Str(<<"+", ".", "'", "+", "_", "6">>),
    Str(<<"a", "b", "+", "c", "=", "a", "b", "-", "a", "a">>),
    Str(<<"a", "6", "a", "a", "+">>),
    Str(<<"a", "_", "a", "a", "5", "+">>),
    Str(<<"\"", "_", "\"", ".", "'", "5", "+">>),
    <<34, 233, 34, 46, 59, 39>> }

Programs ==
  Texts(CoreAlphabet, MaxLen) \cup Texts(PairAlphabet, MaxPairLen)
    \cup {DefThenCalls(x, k, m) : x \in {"a", "b"}, k \in 0..MaxBody, m \in 0..MaxCalls}
    \cup Corpus

LoopPrograms == {PlusLoop(n) : n \in 1..MaxPlus}

\* The state exec(text) starts in.
Start(text) ==
  /\ source = text
  /\ map = [ok |-> TRUE, map |-> {}]
  /\ stack = <<>>
  /\ tape = Tape_new
  /\ printed = <<>>
  /\ fntable = FnTable_new
  /\ status = "new"
  /\ stdin_read = FALSE
  /\ api_ops = <<>>
  /\ api_pre = <<>>
  /\ api_ret = 0
  /\ move_from = Tape_new
  /\ move_head = 0

Init == \E text \in Programs : Start(text)

LoopInit == \E text \in LoopPrograms : Start(text)

\* ------------------------------------------------------------------- exec
\* kind records which call made the frame: "exec", "fn" or "quine".
NewFrame(kind, code, itable) ==
  [kind |-> kind, code |-> code, itable |-> itable, idx |-> 0,
   bfmode |-> FALSE, nicemode |-> FALSE]

\* exec: build the map; on Err return it, else call run on the whole text.
Exec ==
  /\ status = "new"
  /\ LET m == gen_index_table(source)
     IN  /\ map' = m
         /\ IF m.ok
              THEN /\ stack' = <<NewFrame("exec", source, m.map)>>
                   /\ status' = "running"
              ELSE /\ stack' = <<>>
                   /\ status' = "err"
  /\ UNCHANGED <<source, tape, printed, fntable, stdin_read, apiVars>>

\* -------------------------------------------------------------------- run
Top == stack[Len(stack)]

\* The loop condition of the innermost invocation holds.
InLoop == status = "running" /\ stack # <<>> /\ Top.idx < Len(Top.code)

Cur == At(Top.code, Top.idx)

\* Mutant: an open definition captures the character before it is tested
\* for being reserved.
Classify_CaptureFirst(f, ft) ==
  LET c == At(f.code, f.idx)
  IN  IF f.nicemode THEN "nice"
      ELSE IF f.bfmode
        THEN IF c \notin BFMODE_ALLOW THEN "skip" ELSE "dispatch"
      ELSE IF FnTable_any_creating(ft) THEN "capture"
      ELSE IF c \notin RESERVED_CHARS
        THEN IF f.idx + 2 < Len(f.code) /\ At(f.code, f.idx + 1) = Ord["="]
               THEN "copy" ELSE "dispatch"
      ELSE "dispatch"

\* What the mode chain at the head of the loop body does with the character:
\* "nice", "skip" (basic mode), "copy", "capture" or "dispatch" (the match).
Classify(f, ft) ==
  LET c == At(f.code, f.idx)
  IN  IF f.nicemode THEN "nice"
      ELSE IF f.bfmode
        THEN IF c \notin BFMODE_ALLOW THEN "skip" ELSE "dispatch"
      ELSE IF c \notin RESERVED_CHARS
        THEN IF f.idx + 2 < Len(f.code) /\ At(f.code, f.idx + 1) = Ord["="]
               THEN "copy" ELSE "dispatch"
      ELSE IF FnTable_any_creating(ft) THEN "capture"
      ELSE "dispatch"

\* The match is reached with character ch.
Dispatch(ch) == InLoop /\ Cur = Ord[ch] /\ Classify(Top, fntable) = "dispatch"

Fits(t) == Len(t.data_l) <= MaxTape /\ Len(t.data_r) <= MaxTape

\* The innermost invocation goes on at position i.
Goto(i) == stack' = [stack EXCEPT ![Len(stack)].idx = i]

\* The trailing idx += 1 of the loop body.
Advance == Goto(Top.idx + 1)

\* An arm that only changes the tape, followed by idx += 1.
TapeArm(ch, t) ==
  /\ Dispatch(ch)
  /\ Fits(t)
  /\ tape' = t
  /\ Advance
  /\ UNCHANGED <<source, map, printed, fntable, status, stdin_read, apiVars>>

\* An arm that only moves the index to i, followed by idx += 1.
JumpArm(ch, i) ==
  /\ Dispatch(ch)
  /\ Goto(i + 1)
  /\ UNCHANGED <<source, map, tape, printed, fntable, status, stdin_read, apiVars>>

\* unwrap() on None, todo!(), unreachable!(), expect() on Err, a slice out
\* of range: the thread panics and exec never returns.
Panic ==
  /\ status' = "panic"
  /\ UNCHANGED <<source, map, stack, tape, printed, fntable, stdin_read, apiVars>>

\* Mutant: the caller goes on in the modes the invocation ended in.
Return_LeakModes ==
  /\ IF Len(stack) = 1
       THEN /\ stack' = <<>>
            /\ status' = "ok"
       ELSE /\ stack' = [Front(stack) EXCEPT ![Len(stack) - 1].idx = @ + 1,
                                             ![Len(stack) - 1].bfmode = Top.bfmode,
                                             ![Len(stack) - 1].nicemode = Top.nicemode]
            /\ status' = status
  /\ UNCHANGED <<source, map, tape, printed, fntable, stdin_read, apiVars>>

\* run returns Ok(()): to exec, or to the arm that called it, whose loop
\* body ends with idx += 1.
Return ==
  /\ IF Len(stack) = 1
       THEN /\ stack' = <<>>
            /\ status' = "ok"
       ELSE /\ stack' = [Front(stack) EXCEPT ![Len(stack) - 1].idx = @ + 1]
            /\ status' = status
  /\ UNCHANGED <<source, map, tape, printed, fntable, stdin_read, apiVars>>

\* A nested run(code, .., itable, ..) starts.
Call(kind, code, itable) ==
  /\ Len(stack) < MaxDepth
  /\ stack' = Append(stack, NewFrame(kind, code, itable))
  /\ UNCHANGED <<source, map, tape, printed, fntable, status, stdin_read, apiVars>>

\* while idx < code.len() fails: run falls through to Ok(()).
LoopEnd ==
  /\ status = "running" /\ stack # <<>> /\ Top.idx >= Len(Top.code)
  /\ Return

\* Nothing but the index changes.
OnlyIndex == UNCHANGED <<source, map, tape, printed, fntable, status, stdin_read, apiVars>>

\* ---- the mode chain
NiceBytes == <<Ord["N"], Ord["i"], Ord["c"], Ord["e"], Ord["."], Ord["\n"]>>

\* nicemode: '9' leaves the mode, any other character prints "Nice.".
NiceStep ==
  /\ InLoop /\ Classify(Top, fntable) = "nice"
  /\ IF Cur = Ord["9"]
       THEN /\ stack' = [stack EXCEPT ![Len(stack)].nicemode = FALSE,
                                      ![Len(stack)].idx = @ + 1]
            /\ printed' = printed
       ELSE /\ Len(printed) + Len(NiceBytes) <= MaxOut
            /\ printed' = printed \o NiceBytes
            /\ Advance
  /\ UNCHANGED <<source, map, tape, fntable, status, stdin_read, apiVars>>

\* bfmode: a character outside BFMODE_ALLOW is skipped.
BfSkip ==
  /\ InLoop /\ Classify(Top, fntable) = "skip"
  /\ Advance
  /\ OnlyIndex

\* x=y: copy_fn(y, x), then idx += 3.
CopyAssign ==
  /\ InLoop /\ Classify(Top, fntable) = "copy"
  /\ fntable' = FnTable_copy_fn(fntable, At(Top.code, Top.idx + 2), Cur)
  /\ Goto(Top.idx + 3)
  /\ UNCHANGED <<source, map, tape, printed, status, stdin_read, apiVars>>

\* A reserved character while a definition is open: put(c), then idx += 1.
Capture ==
  /\ InLoop /\ Classify(Top, fntable) = "capture"
  /\ IF FnTable_put_fails(fntable)
       THEN Panic
       ELSE /\ fntable' = FnTable_put(fntable, Cur)
            /\ Advance
            /\ UNCHANGED <<source, map, tape, printed, status, stdin_read, apiVars>>

\* ---- the arms of the match
CmdRight == TapeArm(">", Tape_next(tape))
CmdLeft == TapeArm("<", Tape_prev(tape))
CmdDeleteLeft == TapeArm("{", Tape_delete_left(tape).tape)
CmdDeleteRight == TapeArm("}", Tape_delete_right(tape).tape)
CmdInsertLeft == TapeArm("(", Tape_insert_left(tape, 0))
CmdInsertRight == TapeArm(")", Tape_insert_right(tape, 0))
CmdInc == TapeArm("+", Tape_set(tape, (Tape_get(tape) + 1) % 256))
CmdDec == TapeArm("-", Tape_set(tape, (Tape_get(tape) + 255) % 256))
CmdMul == TapeArm("*", Tape_set(tape, (Tape_get(tape) * Tape_get_next(tape)) % 256))
CmdDiv ==
  TapeArm("/", Tape_set(tape, IF Tape_get_next(tape) = 0 THEN 255
                              ELSE Tape_get(tape) \div Tape_get_next(tape)))
CmdNot ==
  TapeArm("!", IF Tape_get(tape) = 0 THEN Tape_set(tape, 1)
               ELSE IF Tape_get(tape) = 1 THEN Tape_set(tape, 0)
               ELSE tape)

\* '.': one byte to standard output and to the Output Buffer.
CmdOutput ==
  /\ Dispatch(".")
  /\ Len(printed) < MaxOut
  /\ printed' = Append(printed, Tape_get(tape))
  /\ Advance
  /\ UNCHANGED <<source, map, tape, fntable, status, stdin_read, apiVars>>

\* ',': one byte of standard input, or 0 at its end or on an error.
CmdInput ==
  /\ Dispatch(",")
  /\ \E b \in Byte : tape' = Tape_set(tape, b)
  /\ stdin_read' = TRUE
  /\ Advance
  /\ UNCHANGED <<source, map, printed, fntable, status, apiVars>>

\* Mutant: the loop opener jumps when the cell is not zero.
CmdLoopOpen_Inverted ==
  /\ Dispatch("[")
  /\ IF Tape_get(tape) # 0
       THEN IF HasLeft(Top.itable, Top.idx)
              THEN Goto(get_by_left(Top.itable, Top.idx) + 1) /\ OnlyIndex
              ELSE Panic
       ELSE Advance /\ OnlyIndex

CmdLoopOpen ==
  /\ Dispatch("[")
  /\ IF Tape_get(tape) = 0
       THEN IF HasLeft(Top.itable, Top.idx)
              THEN Goto(get_by_left(Top.itable, Top.idx) + 1) /\ OnlyIndex
              ELSE Panic
       ELSE Advance /\ OnlyIndex

\* Mutant: the loop closer jumps back when the cell is zero.
CmdLoopClose_Inverted ==
  /\ Dispatch("]")
  /\ IF Tape_get(tape) = 0
       THEN IF HasRight(Top.itable, Top.idx)
              THEN Goto(get_by_right(Top.itable, Top.idx) + 1) /\ OnlyIndex
              ELSE Panic
       ELSE Advance /\ OnlyIndex

CmdLoopClose ==
  /\ Dispatch("]")
  /\ IF Tape_get(tape) # 0
       THEN IF HasRight(Top.itable, Top.idx)
              THEN Goto(get_by_right(Top.itable, Top.idx) + 1) /\ OnlyIndex
              ELSE Panic
       ELSE Advance /\ OnlyIndex

\* The positions i >= idx that hold a ']' the map pairs.
BreakTargets(f) ==
  {i \in f.idx..(Len(f.code) - 1) : At(f.code, i) = Ord["]"] /\ HasRight(f.itable, i)}

SetMin(S) == CHOOSE x \in S : \A y \in S : x <= y

CmdBreak ==
  JumpArm("\\", IF BreakTargets(Top) = {} THEN Top.idx ELSE SetMin(BreakTargets(Top)))

CmdSkipIfDiffer ==
  JumpArm("#", IF Tape_get(tape) # Tape_get_next(tape) THEN Top.idx + 1 ELSE Top.idx)

CmdRandomCell ==
  /\ Dispatch("?")
  /\ \E b \in Byte : tape' = Tape_set(tape, b)
  /\ Advance
  /\ UNCHANGED <<source, map, printed, fntable, status, stdin_read, apiVars>>

CmdRandomMove ==
  /\ Dispatch("$")
  /\ \E t \in {Tape_next(tape), Tape_prev(tape)} : Fits(t) /\ tape' = t
  /\ Advance
  /\ UNCHANGED <<source, map, printed, fntable, status, stdin_read, apiVars>>

CmdRandomSkip ==
  /\ Dispatch("&")
  /\ \E i \in {Top.idx + 1, Top.idx + 2} : Goto(i)
  /\ OnlyIndex

CmdTerminate ==
  /\ Dispatch("@")
  /\ Return

\* The string arm's loop: for each character, next() then set(c as u8).
RECURSIVE WriteString(_, _)
WriteString(t, chars) ==
  IF chars = <<>> THEN t
  ELSE WriteString(Tape_set(Tape_next(t), as_u8(Head(chars))), Tail(chars))

\* '"': the partner is unwrapped, and code[(idx+1)..end] panics unless
\* idx+1 <= end <= code.len().
CmdString ==
  /\ Dispatch("\"")
  /\ IF ~HasLeft(Top.itable, Top.idx)
       THEN Panic
       ELSE LET end == get_by_left(Top.itable, Top.idx)
            IN  IF Top.idx + 1 > end \/ end > Len(Top.code)
                  THEN Panic
                  ELSE LET t == WriteString(tape, SubSeq(Top.code, Top.idx + 2, end))
                       IN  /\ Fits(t)
                           /\ tape' = t
                           /\ Goto(end + 1)
                           /\ UNCHANGED <<source, map, printed, fntable, status,
                                          stdin_read, apiVars>>

CmdShiftLeft == TapeArm("BACKTICK", Tape_set(tape, (Tape_get(tape) * 2) % 256))
CmdShiftRight == TapeArm("~", Tape_set(tape, Tape_get(tape) \div 2))

\* '|': idx = 0; continue.
CmdRestart ==
  /\ Dispatch("|")
  /\ Goto(0)
  /\ OnlyIndex

\* ';': the program text to standard output and to the Output Buffer.
CmdEchoSource ==
  /\ Dispatch(";")
  /\ Len(printed) + Len(as_bytes(source)) <= MaxOut
  /\ printed' = printed \o as_bytes(source)
  /\ Advance
  /\ UNCHANGED <<source, map, tape, fntable, status, stdin_read, apiVars>>

CmdComment ==
  /\ Dispatch("^")
  /\ IF HasLeft(Top.itable, Top.idx)
       THEN Goto(get_by_left(Top.itable, Top.idx) + 1) /\ OnlyIndex
       ELSE Panic

CmdCopyToNext == TapeArm(":", Tape_set_next(tape, Tape_get(tape)))

\* The quine arm: the Output Buffer as a new buffer, run with the caller's
\* own map; expect() panics when the buffer is not UTF-8.
CmdQuine ==
  /\ Dispatch("'")
  /\ LET newcode == from_utf8(printed, 1, <<>>)
     IN  IF newcode.ok THEN Call("quine", newcode.chars, Top.itable) ELSE Panic

CmdToggleBf ==
  /\ Dispatch("_")
  /\ stack' = [stack EXCEPT ![Len(stack)].bfmode = ~@, ![Len(stack)].idx = @ + 1]
  /\ OnlyIndex

CmdCondPair ==
  JumpArm("%", IF HasLeft(Top.itable, Top.idx)
                 THEN IF Tape_get(tape) = 0
                        THEN get_by_left(Top.itable, Top.idx) ELSE Top.idx
               ELSE IF HasRight(Top.itable, Top.idx)
                 THEN IF Tape_get(tape) # 0
                        THEN get_by_right(Top.itable, Top.idx) ELSE Top.idx
               ELSE Top.idx)

\* '=': unreachable!().
CmdEquals == Dispatch("=") /\ Panic

CmdZeroPair ==
  JumpArm("0", IF HasLeft(Top.itable, Top.idx) THEN get_by_left(Top.itable, Top.idx)
               ELSE IF HasRight(Top.itable, Top.idx) THEN get_by_right(Top.itable, Top.idx)
               ELSE Top.idx)

\* '1' and '7': todo!().
CmdOne == Dispatch("1") /\ Panic
CmdSeven == Dispatch("7") /\ Panic

CmdExpand2 == TapeArm("2", Tape_expand_2(tape))
CmdExpand3 == TapeArm("3", Tape_expand_3(tape))

CmdRandomize ==
  /\ Dispatch("4")
  /\ \E t \in Tape_randomize(tape) : Fits(t) /\ tape' = t
  /\ Advance
  /\ UNCHANGED <<source, map, printed, fntable, status, stdin_read, apiVars>>

CmdRound == TapeArm("5", Tape_set(tape, cell_round(Tape_get(tape))))

CmdNice ==
  /\ Dispatch("6")
  /\ stack' = [stack EXCEPT ![Len(stack)].nicemode = TRUE, ![Len(stack)].idx = @ + 1]
  /\ OnlyIndex

\* n times: set(8); next().
RECURSIVE Eights(_, _)
Eights(t, n) == IF n = 0 THEN t ELSE Eights(Tape_next(Tape_set(t, 8)), n - 1)

CmdEight == TapeArm("8", Eights(Tape_prev(Tape_prev(Tape_prev(tape))), 7))

CmdNine == JumpArm("9", Top.idx)

CmdBlank == \E ch \in {" ", "\n", "\t"} : JumpArm(ch, Top.idx)

\* The characters the match has an arm for; any other takes the _ arm.
MatchArms ==
  {Ord[s] : s \in {">", "<", "{", "}", "(", ")", "+", "-", "*", "/", "!", ".",
                   ",", "[", "]", "\\", "#", "?", "$", "&", "@", "\"", "BACKTICK", "~",
                   "|", ";", "^", ":", "'", "_", "%", "=", "0", "1", "2", "3",
                   "4", "5", "6", "7", "8", "9", " ", "\n", "\t"}}

DispatchOther == InLoop /\ Cur \notin MatchArms /\ Classify(Top, fntable) = "dispatch"

\* A completed function: run its body with the map shifted by its start.
FnInvoke ==
  /\ DispatchOther
  /\ FnTable_get_is_some(fntable, Cur)
  /\ Call("fn", fntable.funcs[Cur].body,
          offset_index_table(Top.itable, fntable.funcs[Cur].start))

\* The identifier being defined: its definition ends.
FnEnd ==
  /\ DispatchOther
  /\ ~FnTable_get_is_some(fntable, Cur)
  /\ FnTable_is_creating(fntable, Cur)
  /\ fntable' = FnTable_end(fntable, Cur)
  /\ Advance
  /\ UNCHANGED <<source, map, tape, printed, status, stdin_read, apiVars>>

\* Any other identifier: its definition begins at idx+1.
FnBegin ==
  /\ DispatchOther
  /\ ~FnTable_get_is_some(fntable, Cur)
  /\ ~FnTable_is_creating(fntable, Cur)
  /\ fntable' = FnTable_begin(fntable, Cur, Top.idx + 1)
  /\ Advance
  /\ UNCHANGED <<source, map, tape, printed, status, stdin_read, apiVars>>

Next ==
  \/ Exec \/ LoopEnd
  \/ NiceStep \/ BfSkip \/ CopyAssign \/ Capture
  \/ CmdRight \/ CmdLeft \/ CmdDeleteLeft \/ CmdDeleteRight
  \/ CmdInsertLeft \/ CmdInsertRight \/ CmdInc \/ CmdDec \/ CmdMul \/ CmdDiv
  \/ CmdNot \/ CmdOutput \/ CmdInput \/ CmdLoopOpen \/ CmdLoopClose
  \/ CmdBreak \/ CmdSkipIfDiffer \/ CmdRandomCell \/ CmdRandomMove
  \/ CmdRandomSkip \/ CmdTerminate \/ CmdString \/ CmdShiftLeft
  \/ CmdShiftRight \/ CmdRestart \/ CmdEchoSource \/ CmdComment
  \/ CmdCopyToNext \/ CmdQuine \/ CmdToggleBf \/ CmdCondPair \/ CmdEquals
  \/ CmdZeroPair \/ CmdOne \/ CmdSeven \/ CmdExpand2 \/ CmdExpand3
  \/ CmdRandomize \/ CmdRound \/ CmdNice \/ CmdEight \/ CmdNine \/ CmdBlank
  \/ FnInvoke \/ FnEnd \/ FnBegin

Spec == Init /\ [][Next]_vars

\* The programs +^n[-.] reach these arms only.
LoopNext ==
  \/ Exec \/ LoopEnd \/ CmdInc \/ CmdDec \/ CmdOutput \/ CmdLoopOpen \/ CmdLoopClose

LoopSpec == LoopInit /\ [][LoopNext]_vars

\* The program ?.5.5. : a random byte, emitted, rounded, emitted, rounded
\* again, emitted.
RoundProgram == Str(<<"?", ".", "5", ".", "5", ".">>)

RoundInit == Start(RoundProgram)

RoundNext == Exec \/ LoopEnd \/ CmdRandomCell \/ CmdOutput \/ CmdRound

RoundSpec == RoundInit /\ [][RoundNext]_vars

\* --------------------------------------------------------------- Tape API
\* The public methods of Tape called directly, in any order, on a fresh Tape.
ApiBytes == {0, 1}

ApiInit ==
  /\ source = <<>>
  /\ map = [ok |-> TRUE, map |-> {}]
  /\ stack = <<>>
  /\ tape = Tape_new
  /\ printed = <<>>
  /\ fntable = FnTable_new
  /\ status = "api"
  /\ stdin_read = FALSE
  /\ api_ops = <<>>
  /\ api_pre = <<>>
  /\ api_ret = 0
  /\ move_from = Tape_new
  /\ move_head = 0

\* The last two entries of a log.
LastTwo(s) == IF Len(s) <= 2 THEN s ELSE SubSeq(s, Len(s) - 1, Len(s))

\* Method op(arg) turns the tape into t and returns r.
ApiCall(op, arg, t, r) ==
  /\ status = "api"
  /\ Len(t.data_l) + Len(t.data_r) <= MaxCells
  /\ tape' = t
  /\ api_ops' = LastTwo(Append(api_ops, [op |-> op, arg |-> arg]))
  /\ api_pre' = LastTwo(Append(api_pre, tape))
  /\ api_ret' = r
  /\ UNCHANGED <<source, map, stack, printed, fntable, status, stdin_read,
                 move_from, move_head>>

ApiSet == \E v \in ApiBytes : ApiCall("set", v, Tape_set(tape, v), 0)
ApiSetNext == \E v \in ApiBytes : ApiCall("set_next", v, Tape_set_next(tape, v), 0)
ApiNext == ApiCall("next", 0, Tape_next(tape), 0)
ApiPrev == ApiCall("prev", 0, Tape_prev(tape), 0)
ApiInsertLeft == \E v \in ApiBytes : ApiCall("insert_left", v, Tape_insert_left(tape, v), 0)
ApiInsertRight == \E v \in ApiBytes : ApiCall("insert_right", v, Tape_insert_right(tape, v), 0)
ApiDeleteLeft ==
  ApiCall("delete_left", 0, Tape_delete_left(tape).tape, Tape_delete_left(tape).ret)
ApiDeleteRight ==
  ApiCall("delete_right", 0, Tape_delete_right(tape).tape, Tape_delete_right(tape).ret)
ApiExpand2 == ApiCall("expand_2", 0, Tape_expand_2(tape), 0)
ApiExpand3 == ApiCall("expand_3", 0, Tape_expand_3(tape), 0)

TapeNext ==
  \/ ApiSet \/ ApiSetNext \/ ApiNext \/ ApiPrev \/ ApiInsertLeft \/ ApiInsertRight
  \/ ApiDeleteLeft \/ ApiDeleteRight \/ ApiExpand2 \/ ApiExpand3

TapeSpec == ApiInit /\ [][TapeNext]_vars

\* ------------------------------------------------------------- head moves
\* next() and prev() called in any order on a Tape with any histories, as
\* set() and insert_left()/insert_right() can leave it.
MoveBytes == {0, 1, 2}

MoveTapes ==
  LET Hist == UNION {[1..k -> MoveBytes] : k \in 0..MaxHist}
  IN  {[data_l |-> l, data_r |-> r, cell |-> c] : l \in Hist, r \in Hist, c \in MoveBytes}

MoveInit ==
  /\ source = <<>>
  /\ map = [ok |-> TRUE, map |-> {}]
  /\ stack = <<>>
  /\ \E t \in MoveTapes : tape = t /\ move_from = t
  /\ move_head = 0
  /\ printed = <<>>
  /\ fntable = FnTable_new
  /\ status = "move"
  /\ stdin_read = FALSE
  /\ api_ops = <<>>
  /\ api_pre = <<>>
  /\ api_ret = 0

MoveRight ==
  /\ status = "move"
  /\ move_head < MaxMoves
  /\ tape' = Tape_next(tape)
  /\ move_head' = move_head + 1
  /\ UNCHANGED <<source, map, stack, printed, fntable, status, stdin_read,
                 api_ops, api_pre, api_ret, move_from>>

MoveLeft ==
  /\ status = "move"
  /\ move_head > -MaxMoves
  /\ tape' = Tape_prev(tape)
  /\ move_head' = move_head - 1
  /\ UNCHANGED <<source, map, stack, printed, fntable, status, stdin_read,
                 api_ops, api_pre, api_ret, move_from>>

MoveNext == MoveRight \/ MoveLeft

MoveSpec == MoveInit /\ [][MoveNext]_vars

\* ------------------------------------------------------------ FnTable API
\* begin, put, end and copy_fn called directly, in any order, on a new FnTable.
FnIds == {Ord["a"], Ord["b"]}

FnChars == {Ord["+"], Ord["-"]}

FnApiInit ==
  /\ source = <<>>
  /\ map = [ok |-> TRUE, map |-> {}]
  /\ stack = <<>>
  /\ tape = Tape_new
  /\ printed = <<>>
  /\ fntable = FnTable_new
  /\ status = "fnapi"
  /\ stdin_read = FALSE
  /\ api_ops = <<>>
  /\ api_pre = <<>>
  /\ api_ret = 0
  /\ move_from = Tape_new
  /\ move_head = 0

\* The FnTable becomes ft.
FnApiCall(ft) ==
  /\ status = "fnapi"
  /\ fntable' = ft
  /\ UNCHANGED <<source, map, stack, tape, printed, status, stdin_read, apiVars>>

FnApiBegin ==
  \E c \in FnIds, i \in 0..MaxStart : FnApiCall(FnTable_begin(fntable, c, i))

\* put unwraps the entry of every being-defined identifier: a missing one panics.
FnApiPut ==
  /\ status = "fnapi"
  /\ \A f \in DOMAIN fntable.funcs : Len(fntable.funcs[f].body) < MaxFnBody
  /\ \E c \in FnChars :
       IF FnTable_put_fails(fntable) THEN Panic ELSE FnApiCall(FnTable_put(fntable, c))

FnApiEnd == \E c \in FnIds : FnApiCall(FnTable_end(fntable, c))

FnApiCopyFn ==
  \E from \in FnIds, to \in FnIds : FnApiCall(FnTable_copy_fn(fntable, from, to))

FnApiNext == FnApiBegin \/ FnApiPut \/ FnApiEnd \/ FnApiCopyFn

FnSpec == FnApiInit /\ [][FnApiNext]_vars

\* ================================================================= claims
\* ---- helpers of the statements

\* The '[' and ']' of a text, in order.
IsBracket(c) == c = Ord["["] \/ c = Ord["]"]
AllBrackets(code) == SelectSeq(code, IsBracket)

\* The '[' and ']' of a text that stand outside every comment (^...^) and
\* every quoted string ("..."), in order; a '"' inside a comment opens nothing.
RECURSIVE LiveBracketsFrom(_, _, _, _)
LiveBracketsFrom(code, i, inComment, inQuote) ==
  IF i > Len(code) THEN <<>>
  ELSE LET c == code[i]
       IN  IF c = Ord["^"] THEN LiveBracketsFrom(code, i + 1, ~inComment, inQuote)
           ELSE IF c = Ord["\""] /\ ~inComment
             THEN LiveBracketsFrom(code, i + 1, inComment, ~inQuote)
           ELSE IF IsBracket(c) /\ ~inComment /\ ~inQuote
             THEN <<c>> \o LiveBracketsFrom(code, i + 1, inComment, inQuote)
           ELSE LiveBracketsFrom(code, i + 1, inComment, inQuote)

LiveBrackets(code) == LiveBracketsFrom(code, 1, FALSE, FALSE)

\* Openers minus closers among the first n brackets of bs.
Depth(bs, n) ==
  Cardinality({i \in 1..n : bs[i] = Ord["["]}) - Cardinality({i \in 1..n : bs[i] = Ord["]"]})

\* Some closer of bs has no opener before it to match.
UnmatchedCloser(bs) == \E n \in 1..Len(bs) : Depth(bs, n) < 0

Balanced(bs) == ~UnmatchedCloser(bs) /\ Depth(bs, Len(bs)) = 0

\* exec has built (or failed to build) the map of the program.
Built == status \in {"running", "ok", "err", "panic"}

\* get_by_left(get_by_right(p)) == p for every paired closer p, and no
\* position in two pairs.
RoundTrips(m) ==
  /\ \A p \in m : HasRight(m, p[2]) /\ HasLeft(m, get_by_right(m, p[2]))
                  /\ get_by_left(m, get_by_right(m, p[2])) = p[2]
  /\ \A p \in m : p[1] # p[2]
  /\ \A p, q \in m : p # q => {p[1], p[2]} \cap {q[1], q[2]} = {}

\* Nothing of the program has run: no output, no input, fresh Tape and FnTable.
NothingRan ==
  /\ stack = <<>>
  /\ printed = <<>>
  /\ ~stdin_read
  /\ tape = Tape_new
  /\ fntable = FnTable_new

\* ---- C1
\* C1 as stated: for every program whose '[' and ']' characters are
\* balanced, gen_index_table succeeds, and the map round-trips and pairs no
\* position twice. Refuted by ^[^], whose '[' lies in a comment.
C1_AsStated ==
  Built /\ Balanced(AllBrackets(source)) => map.ok /\ RoundTrips(map.map)

\* C1 amended: for every program whose '[' and ']' outside comments and
\* quoted strings are balanced, gen_index_table succeeds, and for every
\* paired closer p of the map get_by_left(get_by_right(p)) = p, and no
\* position belongs to more than one pair.
C1_LiveBalanced ==
  Built /\ Balanced(LiveBrackets(source)) => map.ok /\ RoundTrips(map.map)

\* A balanced program with one loop nested in another was mapped.
C1_Witness ==
  /\ Built /\ map.ok /\ Balanced(LiveBrackets(source))
  /\ \E p, q \in map.map :
       /\ p[1] < q[1] /\ q[2] < p[2]
       /\ At(source, p[1]) = Ord["["] /\ At(source, q[1]) = Ord["["]

\* ---- C2
\* C2 as stated: for every program that contains a ']' without a '[' before
\* it to match, exec returns the mismatched-brackets error and nothing of
\* the program runs. Refuted by ^]^, whose ']' lies in a comment.
C2_AsStated ==
  Built /\ UnmatchedCloser(AllBrackets(source)) => status = "err" /\ NothingRan

\* C2 amended: for every program with an unmatched ']' outside comments and
\* quoted strings, exec returns the mismatched-brackets error before any
\* command is executed: no output, no input, no Tape or FnTable step.
C2_LiveUnmatched ==
  Built /\ UnmatchedCloser(LiveBrackets(source)) =>
    status = "err" /\ ~map.ok /\ NothingRan

\* exec failed on a program whose unmatched ']' comes after a command.
C2_Witness ==
  /\ status = "err" /\ NothingRan
  /\ UnmatchedCloser(LiveBrackets(source))
  /\ Len(source) >= 2 /\ source[1] = Ord["+"]

\* ---- C3
\* C3: exec always ends by returning Ok or Err and never by a panic; the
\* fatal dispatch errors ('1', '7', a pair lookup without a partner, an
\* Output Buffer that is not text at a quine re-run) are returned as Err.
C3_NeverPanics == status # "panic"

\* ---- C4
\* Every '[', ']', '"' and '^' of the program is in the map.
WellFormed(code) ==
  LET m == gen_index_table(code)
  IN  /\ m.ok
      /\ \A i \in 0..(Len(code) - 1) :
           At(code, i) \in {Ord["["], Ord["]"], Ord["\""], Ord["^"]}
             => HasLeft(m.map, i) \/ HasRight(m.map, i)

\* The command about to run unwraps a pair lookup that finds nothing.
MissingLookup ==
  /\ InLoop /\ Classify(Top, fntable) = "dispatch"
  /\ \/ Cur = Ord["["] /\ Tape_get(tape) = 0 /\ ~HasLeft(Top.itable, Top.idx)
     \/ Cur = Ord["]"] /\ Tape_get(tape) # 0 /\ ~HasRight(Top.itable, Top.idx)
     \/ Cur = Ord["\""] /\ ~HasLeft(Top.itable, Top.idx)
     \/ Cur = Ord["^"] /\ ~HasLeft(Top.itable, Top.idx)

\* C4: in a well-formed program no command of the outermost frame looks up
\* a pair the map lacks; a missing pair is met only in a frame that runs a
\* function body with an offset-shifted map.
C4_MissingOnlyShifted ==
  WellFormed(source) /\ MissingLookup => Len(stack) > 1 /\ Top.kind = "fn"

\* ---- C5
\* n-1, n-2, ..., 0
Countdown(n) == [i \in 1..n |-> n - i]

\* The number of leading '+' of a program +^n[-.].
PlusCount == Len(source) - 4

\* C5: for every n in 1..255 the program +^n[-.] on a fresh tape emits
\* exactly the bytes n-1, ..., 0 in that order (what is emitted so far is
\* always a prefix of them), and ends normally with the active cell at 0.
C5_Countdown ==
  PlusCount \in 1..255 /\ source = PlusLoop(PlusCount) =>
    /\ status # "panic" /\ status # "err"
    /\ Len(printed) <= PlusCount
    /\ printed = SubSeq(Countdown(PlusCount), 1, Len(printed))
    /\ status = "ok" => printed = Countdown(PlusCount) /\ Tape_get(tape) = 0

\* +++[-.] ended normally having emitted 2, 1, 0.
C5_Witness ==
  /\ source = PlusLoop(3) /\ status = "ok"
  /\ printed = <<2, 1, 0>> /\ Tape_get(tape) = 0

\* ---- C6
\* C6 as stated: +[-.] on a fresh tape ends with an empty Output Buffer.
C6_AsStated == source = PlusLoop(1) /\ status = "ok" => printed = <<>>

\* C6 amended: +[-.] on a fresh tape runs its loop body once (the cell is 1
\* at the '['), so it emits exactly one byte, 0: the Output Buffer is <<0>>
\* when it terminates, and nothing else was ever in it.
C6_OneZero ==
  source = PlusLoop(1) =>
    /\ printed \in {<<>>, <<0>>}
    /\ status = "ok" => printed = <<0>>

\* +[-.] ended normally.
C6_Witness == source = PlusLoop(1) /\ status = "ok" /\ Len(printed) = 1

\* ---- C7
\* The body length k and the call count m of a program x +^k x x^m.
DefBody == (CHOOSE i \in 2..Len(source) : source[i] = source[1]) - 2
DefCalls == Len(source) - DefBody - 2
IsDefThenCalls ==
  /\ Len(source) >= 2
  /\ \E x \in {"a", "b"} : source[1] = Ord[x]
  /\ \E i \in 2..Len(source) : source[i] = source[1]
  /\ \A i \in 2..(DefBody + 1) : source[i] = Ord["+"]
  /\ \A i \in (DefBody + 2)..Len(source) : source[i] = source[1]

\* C7: in a program x +^k x x^m the definition leaves the active cell at 0
\* and stores the body +^k without running it; each later x runs the body
\* once, so after j of them the cell is (k*j) mod 256, and the program ends
\* with (k*m) mod 256 (a++aa: 2).
C7_DefineThenInvoke ==
  IsDefThenCalls =>
    /\ status # "panic"
    /\ (status = "running" /\ Len(stack) = 1 /\ Top.idx <= DefBody + 2)
         => Tape_get(tape) = 0
    /\ (status = "running" /\ Len(stack) = 1 /\ Top.idx >= DefBody + 2)
         => /\ Tape_get(tape) = (DefBody * (Top.idx - (DefBody + 2))) % 256
            /\ fntable.creating = {}
            /\ fntable.funcs[source[1]].body = Copies("+", DefBody)
    /\ status = "ok" => Tape_get(tape) = (DefBody * DefCalls) % 256

\* a++aa ended with the cell at 2.
C7_Witness ==
  /\ source = Str(<<"a", "+", "+", "a", "a">>) /\ status = "ok"
  /\ Tape_get(tape) = 2

\* ---- C8
\* The Tape API run's last two calls were first then second.
LastCalls(first, second) ==
  Len(api_ops) = 2 /\ api_ops[1].op = first /\ api_ops[2].op = second

\* C8 as stated: on a fresh Tape, next() then prev() restores the cell and
\* leaves both histories as they were (empty).
C8_AsStated ==
  LastCalls("next", "prev") /\ api_pre[1] = Tape_new => tape = Tape_new

\* C8 amended: on a fresh Tape, next() then prev() restores the active cell
\* (0) and leaves the left history empty; the right history is not left
\* unchanged: it now holds the one cell the head visited, with value 0.
C8_RightKeepsVisited ==
  LastCalls("next", "prev") /\ api_pre[1] = Tape_new =>
    tape = [data_l |-> <<>>, data_r |-> <<0>>, cell |-> 0]

\* next() then prev() ran on a fresh Tape.
C8_Witness ==
  /\ LastCalls("next", "prev") /\ api_pre[1] = Tape_new
  /\ api_pre[2] = [data_l |-> <<0>>, data_r |-> <<>>, cell |-> 0]

\* ---- C9
\* C9: in every reachable Tape state, insert_left(v) followed at once by
\* delete_left() returns v and leaves both histories and the active cell as
\* they were before the insert, for every byte v.
C9_InsertDeleteLeft ==
  /\ LastCalls("insert_left", "delete_left") =>
       api_ret = api_ops[1].arg /\ tape = api_pre[1]
  /\ status = "api" =>
       \A v \in Byte :
         LET d == Tape_delete_left(Tape_insert_left(tape, v))
         IN  d.ret = v /\ d.tape = tape

\* insert_left(1) then delete_left() ran on a Tape with a left history.
C9_Witness ==
  /\ LastCalls("insert_left", "delete_left")
  /\ api_ops[1].arg = 1 /\ api_ret = 1
  /\ Len(api_pre[1].data_l) >= 2 /\ api_pre[1].data_l[1] = 0

\* ---- C10
\* s2 is s1 with every element n times, in the same order.
EachTimes(s1, s2, n) ==
  /\ Len(s2) = n * Len(s1)
  /\ \A i \in 1..Len(s1) : \A j \in 1..n : s2[n * (i - 1) + j] = s1[i]

\* after is before with expand_2 applied.
Expanded2(before, after) ==
  /\ EachTimes(before.data_l, after.data_l, 2)
  /\ Len(after.data_r) = 2 * Len(before.data_r) + 1
  /\ EachTimes(before.data_r, Front(after.data_r), 2)
  /\ Last(after.data_r) = before.cell
  /\ after.cell = before.cell

\* C10: expand_2() turns a left history [x1..xn] into [x1,x1,..,xn,xn] (a
\* second call into four of each), does the same to the right history and
\* then pushes one copy of the active cell on it nearest the head; the
\* active cell is unchanged.
C10_Expand2 ==
  /\ (api_ops # <<>> /\ Last(api_ops).op = "expand_2")
       => Expanded2(Last(api_pre), tape)
  /\ status = "api" =>
       /\ Expanded2(tape, Tape_expand_2(tape))
       /\ EachTimes(tape.data_l, Tape_expand_2(Tape_expand_2(tape)).data_l, 4)

\* expand_2() ran on a Tape whose left history was [a, b] with a # b.
C10_Witness ==
  /\ api_ops # <<>> /\ Last(api_ops).op = "expand_2"
  /\ Len(Last(api_pre).data_l) = 2
  /\ Last(api_pre).data_l[1] # Last(api_pre).data_l[2]
  /\ tape.data_l = <<Last(api_pre).data_l[1], Last(api_pre).data_l[1],
                     Last(api_pre).data_l[2], Last(api_pre).data_l[2]>>


\* ---- C11
Abs(x) == IF x < 0 THEN -x ELSE x

\* r is a multiple of 5 in 0..255 nearest to n, the lower one on a tie.
NearestFive(n, r) ==
  /\ r \in Byte /\ r % 5 = 0
  /\ \A m \in Byte : m % 5 = 0 => Abs(r - n) <= Abs(m - n)
  /\ Abs(r - n) <= 2
  /\ r = (IF n % 5 <= 2 THEN n - (n % 5) ELSE n + (5 - (n % 5)))

\* C11: for every byte n, command 5 sets the active cell to the multiple of
\* 5 nearest to n (remainders 0,1,2 down, 3,4 up; 2 -> 0, 7 -> 5, 12 -> 10,
\* 253..255 -> 255), at most 2 away from n, the addition of 5 never passing
\* 255, and a second 5 leaves the value of the first. Checked on the bytes
\* the program ?.5.5. emits: n, then the cell after each 5.
C11_RoundNearestFive ==
  /\ \A n \in Byte :
       /\ cell_round(n) % 5 = 0 /\ Abs(cell_round(n) - n) <= 2
       /\ (n % 5 > 2 => 5 * (n \div 5) + 5 <= 255)
       /\ cell_round(cell_round(n)) = cell_round(n)
  /\ cell_round(2) = 0 /\ cell_round(3) = 5 /\ cell_round(7) = 5
  /\ cell_round(8) = 10 /\ cell_round(12) = 10
  /\ cell_round(253) = 255 /\ cell_round(254) = 255 /\ cell_round(255) = 255
  /\ source = RoundProgram =>
       /\ status # "panic"
       /\ Len(printed) >= 2 => NearestFive(printed[1], printed[2])
       /\ Len(printed) >= 3 => printed[3] = printed[2]
       /\ (status = "running" /\ Top.idx \in {3, 5}) => NearestFive(printed[1], Tape_get(tape))

\* ?.5.5. drew 253 and ended having emitted 253, 255, 255.
C11_Witness ==
  /\ source = RoundProgram /\ status = "ok"
  /\ printed = <<253, 255, 255>> /\ Tape_get(tape) = 255

\* ---- C12
\* No frame has both mode flags set.
ModesExclusive == \A i \in 1..Len(stack) : ~(stack[i].bfmode /\ stack[i].nicemode)

\* A step leaves the flags of every frame below the innermost as they were,
\* which covers the caller a frame returns to, and a frame it pushes starts
\* with both flags clear.
ModesPerFrame ==
  /\ \A i \in 1..Len(stack') :
       i < Len(stack) =>
         /\ stack'[i].bfmode = stack[i].bfmode
         /\ stack'[i].nicemode = stack[i].nicemode
  /\ Len(stack') > Len(stack) =>
       ~stack'[Len(stack')].bfmode /\ ~stack'[Len(stack')].nicemode

\* C12: the modes are mutually exclusive and per frame: no frame ever has the
\* nice-mode flag and the basic-restricted flag both set, every nested
\* invocation (function body or quine re-run) starts in normal mode, and a
\* mode change made inside a nested invocation does not change the mode of
\* the caller it returns to.
C12_ModesPerFrame == []ModesExclusive /\ [][ModesPerFrame]_vars

\* a6aa+ ended: the body of a entered nice mode, and after it returned the
\* caller ran '+' as a command (cell 1, nothing emitted).
C12_Witness ==
  /\ source = Str(<<"a", "6", "a", "a", "+">>) /\ status = "ok"
  /\ Tape_get(tape) = 1 /\ printed = <<>>

\* ---- C13
\* The characters gen_index_table pairs.
PairChars == {Ord["["], Ord["]"], Ord["\""], Ord["^"], Ord["%"], Ord["0"]}

\* Maps a and b give position j the same partner, or both none.
SamePartner(a, b, j) ==
  /\ HasLeft(a, j) <=> HasLeft(b, j)
  /\ HasRight(a, j) <=> HasRight(b, j)
  /\ HasLeft(a, j) /\ HasLeft(b, j) => get_by_left(a, j) = get_by_left(b, j)
  /\ HasRight(a, j) /\ HasRight(b, j) => get_by_right(a, j) = get_by_right(b, j)

\* Frame f resolves every pair character of its buffer as a map built from
\* that buffer alone would.
ResolvesAsFresh(f) ==
  LET fresh == gen_index_table(f.code)
  IN  fresh.ok =>
        \A j \in 0..(Len(f.code) - 1) :
          At(f.code, j) \in PairChars => SamePartner(f.itable, fresh.map, j)

\* C13: whenever a function is invoked its body runs as a standalone buffer:
\* for every position j of the body that holds a '[', ']', '"', '^', '%' or
\* '0', the offset-shifted map of the invocation pairs j with the partner a
\* map built from the body alone gives it. Refuted by ab[]baa: the body of a
\* is [] but its region holds the identifier b, so the shifted map pairs 1
\* with 2 and the '[' at 0 has no partner.
C13_ShiftedAsFresh ==
  \A i \in 1..Len(stack) : stack[i].kind = "fn" => ResolvesAsFresh(stack[i])

\* ---- C14
\* C14: a quine re-run resolves its pair lookups against a map built from
\* the new buffer: every '[', ']', '"', '^', '%', '0' of the re-run buffer
\* has in the frame's map the partner a fresh map of that buffer gives it.
\* Refuted by +"[]"<.>.>' : the re-run buffer is [] and the frame's map is
\* the caller's, which pairs the two '"' at 1 and 4 and nothing at 0.
C14_QuineMapFresh ==
  \A i \in 1..Len(stack) : stack[i].kind = "quine" => ResolvesAsFresh(stack[i])

\* ---- C15
\* A definition is open and the innermost frame stands on a reserved character.
OpenAndReserved ==
  InLoop /\ FnTable_any_creating(fntable) /\ Cur \in RESERVED_CHARS

\* The step appends c to the body of every being-defined identifier and
\* changes nothing else of the FnTable.
PutInEveryOpen(c) ==
  /\ fntable'.creating = fntable.creating
  /\ DOMAIN fntable'.funcs = DOMAIN fntable.funcs
  /\ \A f \in DOMAIN fntable.funcs :
       /\ fntable'.funcs[f].start = fntable.funcs[f].start
       /\ fntable'.funcs[f].body =
            IF f \in fntable.creating THEN Append(fntable.funcs[f].body, c)
            ELSE fntable.funcs[f].body

\* The step only moves the innermost frame's index, by one.
OnlyAdvances ==
  /\ stack' = [stack EXCEPT ![Len(stack)].idx = @ + 1]
  /\ tape' = tape /\ printed' = printed /\ status' = status
  /\ stdin_read' = stdin_read

\* C15: in every reachable state of every frame, if some identifier is being
\* defined and the current character is reserved, the step appends that
\* character to the body of every being-defined identifier, advances the
\* index by exactly one, and leaves the Tape, the Output Buffer, the mode
\* flags and the being-defined set unchanged; while a definition is open
\* every frame is in normal mode, so no mode takes the character first.
C15_CaptureOnly ==
  /\ [](FnTable_any_creating(fntable) =>
          \A i \in 1..Len(stack) : ~stack[i].bfmode /\ ~stack[i].nicemode)
  /\ [][OpenAndReserved => PutInEveryOpen(Cur) /\ OnlyAdvances]_vars

\* In ab[]baa both a and b are open and both have captured [ and ].
C15_Witness ==
  /\ source = Str(<<"a", "b", "[", "]", "b", "a", "a">>)
  /\ InLoop /\ Top.idx = 4
  /\ fntable.creating = {Ord["a"], Ord["b"]}
  /\ fntable.funcs[Ord["a"]].body = Str(<<"[", "]">>)
  /\ fntable.funcs[Ord["b"]].body = Str(<<"[", "]">>)
  /\ tape = Tape_new /\ printed = <<>>

\* ---- C16
\* The logical tape of t: the byte k cells right of the head (left for
\* k < 0), zero where no cell is materialised.
Logical(t, k) ==
  IF k = 0 THEN t.cell
  ELSE IF k < 0
    THEN IF -k <= Len(t.data_l) THEN t.data_l[Len(t.data_l) + k + 1] ELSE 0
  ELSE IF k <= Len(t.data_r) THEN t.data_r[Len(t.data_r) - k + 1] ELSE 0

\* Positions that cover every materialised cell of a head-move run.
Window == (-(MaxHist + MaxMoves + 1))..(MaxHist + MaxMoves + 1)

\* Moving from a to b pushed a's cell on history "to" and took b's cell off
\* history "from" (0, and nothing removed, when that history was empty).
Transfers(a, b, to, from) ==
  /\ b[to] = Append(a[to], a.cell)
  /\ IF a[from] = <<>>
       THEN b[from] = <<>> /\ b.cell = 0
       ELSE b[from] = Front(a[from]) /\ b.cell = Last(a[from])

\* C16: head moves keep the logical tape: after any sequence of next() and
\* prev() every logical cell holds the value it had, the head stands
\* (calls of next) - (calls of prev) cells right of where it started, and
\* get() returns the logical value there; a single move transfers exactly
\* one value between the active cell and the adjacent history.
C16_MovesKeepLogicalTape ==
  status = "move" =>
    /\ \A p \in Window : Logical(tape, p - move_head) = Logical(move_from, p)
    /\ Tape_get(tape) = Logical(move_from, move_head)
    /\ Transfers(tape, Tape_next(tape), "data_l", "data_r")
    /\ Transfers(tape, Tape_prev(tape), "data_r", "data_l")

\* Two calls of prev() took the head past the left end of a Tape with
\* left history [1], cell 1 and right history [1, 0].
C16_Witness ==
  /\ status = "move" /\ move_head = -2
  /\ move_from = [data_l |-> <<1>>, data_r |-> <<1, 0>>, cell |-> 1]
  /\ tape = [data_l |-> <<>>, data_r |-> <<1, 0, 1, 1>>, cell |-> 0]

\* ---- C17
\* Byte new is byte old, or old plus some d in -5..5 modulo 256.
PerturbedFrom(old, new) == new = old \/ \E d \in (-5)..5 : new = (old + d + 256) % 256

\* History new has the length of old and every cell perturbed from its own.
HistoryPerturbed(old, new) ==
  /\ Len(new) = Len(old)
  /\ \A i \in 1..Len(old) : PerturbedFrom(old[i], new[i])

\* C17: randomize() perturbs the tape cell by cell: the left and the right
\* history keep their lengths, and every cell of either history and the
\* active cell holds its previous value or that value plus some d in -5..5
\* modulo 256. Refuted by >4 : the right history, empty before, comes out
\* with one cell, computed from the left history.
C17_RandomizeCellByCell ==
  [][Dispatch("4") =>
       /\ HistoryPerturbed(tape.data_l, tape'.data_l)
       /\ HistoryPerturbed(tape.data_r, tape'.data_r)
       /\ PerturbedFrom(tape.cell, tape'.cell)]_vars

\* ---- C18
\* C18: the '=' arm of the match is unreachable: in every reachable state a
\* '=' is consumed before the match (as the middle of a copy-assignment,
\* captured into an open definition, or skipped by a mode), so the match is
\* never reached with '='. Refuted by the program = alone: it is reserved,
\* no definition is open and no mode is set.
C18_EqualsNeverDispatched ==
  ~(InLoop /\ Cur = Ord["="] /\ Classify(Top, fntable) = "dispatch")

\* ---- C19
\* C19: after any sequence of begin, put, end and copy_fn, every identifier
\* of the being-defined set has an entry in the function table, so put
\* finds the entry of every open definition and never fails.
C19_CreatingHaveEntries ==
  /\ fntable.creating \subseteq DOMAIN fntable.funcs
  /\ ~FnTable_put_fails(fntable)
  /\ status # "panic"

\* Both a and b are open; a captured + and -, b (begun later) - only.
C19_Witness ==
  /\ status = "fnapi"
  /\ fntable.creating = {Ord["a"], Ord["b"]}
  /\ fntable.funcs[Ord["a"]].body = Str(<<"+", "-">>)
  /\ fntable.funcs[Ord["b"]].body = Str(<<"-">>)

\* ---- C20
AllReserved(chars) == \A i \in 1..Len(chars) : chars[i] \in RESERVED_CHARS

\* C20: every body stored in the function table consists of reserved
\* characters only (identifier characters are never captured, also not by a
\* copy-assignment), so a frame that runs a function body holds no
\* identifier character: it never takes the copy-assignment branch and never
\* reaches the identifier arm that invokes, ends or begins a function.
C20_BodiesReserved ==
  /\ \A f \in DOMAIN fntable.funcs : AllReserved(fntable.funcs[f].body)
  /\ \A k \in 1..Len(stack) : stack[k].kind = "fn" => AllReserved(stack[k].code)
  /\ (InLoop /\ Top.kind = "fn") =>
       Classify(Top, fntable) # "copy" /\ ~DispatchOther

\* ab+c=ab-aa runs the body of a: the region of a held the identifier b and
\* the copy-assignment c=a, and the body is +- ; c was given the body +.
C20_Witness ==
  /\ source = Str(<<"a", "b", "+", "c", "=", "a", "b", "-", "a", "a">>)
  /\ InLoop /\ Top.kind = "fn" /\ Top.idx = 1
  /\ Top.code = Str(<<"+", "-">>)
  /\ fntable.funcs[Ord["c"]].body = Str(<<"+">>)
  /\ fntable.funcs[Ord["b"]].body = Str(<<"+">>)
  /\ Tape_get(tape) = 1
=============================================================================
